---- MODULE Spec2Model ----
(***************************************************************************)
(* Verification model of the catchesstrophy move generation core:          *)
(* bitboards, attack vision, the legal move generator, make / unmake and   *)
(* incremental Zobrist hashing.                                            *)
(*                                                                         *)
(* A 64-bit mask is the set of the indices of its set bits (0 = a1 ...     *)
(* 63 = h8).  A Zobrist hash is the set of table keys XORed into it (XOR   *)
(* of random keys is symmetric difference of key sets).                    *)
(***************************************************************************)
EXTENDS Integers, Sequences, FiniteSets, TLC

\* ------------------------------------------------------------------ bounds
\* Longest line of made moves explored from the start position.
MaxPly == 2

\* ------------------------------------------------------------- u64 as sets
ALL == 0..63

Bit(sq) == {sq}

Xor(a, b) == (a \ b) \cup (b \ a)

Not(a) == ALL \ a

Shl(m, n) == {s + n : s \in {t \in m : t + n <= 63}}

Shr(m, n) == {s - n : s \in {t \in m : t - n >= 0}}

MinOf(S) == CHOOSE x \in S : \A y \in S : x <= y

MaxOf(S) == CHOOSE x \in S : \A y \in S : x >= y

\* u64::trailing_zeros: 64 for the empty mask.
trailing_zeros(m) == IF m = {} THEN 64 ELSE MinOf(m)

count_ones(m) == Cardinality(m)

\* Square::from_u8: keeps the low six bits.
from_u8(ix) == ix % 64

\* pos_hit.wrapping_sub(1 << k) on a bit set.
wrapping_sub_bit(x, k) ==
    LET above == {j \in x : j >= k}
    IN  IF above = {} THEN x \cup (k..63)
        ELSE LET j == MinOf(above) IN (x \ {j}) \cup (k..(j - 1))

\* File and edge masks used by the fills.
FILE_A == {0, 8, 16, 24, 32, 40, 48, 56}

FILE_H == {7, 15, 23, 31, 39, 47, 55, 63}

FILE_AB == FILE_A \cup {1, 9, 17, 25, 33, 41, 49, 57}

FILE_GH == FILE_H \cup {6, 14, 22, 30, 38, 46, 54, 62}

RANK_1 == 0..7

RANK_2 == 8..15

RANK_7 == 48..55

MAIN_DIAGONAL == {0, 9, 18, 27, 36, 45, 54, 63}

MAIN_ANTIDIAGONAL == {7, 14, 21, 28, 35, 42, 49, 56}

\* ----------------------------------------------------------------- enums
WHITE == 0

BLACK == 1

opp(c) == 1 - c

PAWN == 1

KNIGHT == 2

BISHOP == 3

ROOK == 4

QUEEN == 5

KING == 6

Echelons == 1..6

Commoners == 1..5

\* Option::None for special / capture / en passant.
NONE == 0

SP_PAWN == 1

SP_EAST == 6

SP_WEST == 7

EAST == 0

WEST == 1

\* ------------------------------------------------------------- biterate!
\* The squares the loop variable takes, in order: count_ones + 1 passes, the
\* mask being overwritten with the complement of the bit just visited.  On an
\* empty mask the shift amount is 64: a build with overflow checks panics
\* there (biterate_overflows), a build without them shifts by 64 mod 64.
RECURSIVE biterate_from(_, _)
biterate_from(prev, n) ==
    IF n = 0 THEN <<>>
    ELSE LET mask == Not(Bit(prev % 64))
             ix == trailing_zeros(mask)
         IN  <<from_u8(ix)>> \o biterate_from(ix, n - 1)

biterate(mask0) ==
    <<from_u8(trailing_zeros(mask0))>>
      \o biterate_from(trailing_zeros(mask0), count_ones(mask0))

biterate_overflows(mask0) == mask0 = {}

\* ------------------------------------------------------ sequence helpers
RECURSIVE Concat(_)
Concat(seqs) ==
    IF seqs = <<>> THEN <<>> ELSE Head(seqs) \o Concat(Tail(seqs))

RECURSIVE XorAll(_)
XorAll(seqs) ==
    IF seqs = <<>> THEN {} ELSE Xor(Head(seqs), XorAll(Tail(seqs)))

Range(seq) == {seq[i] : i \in DOMAIN seq}

\* --------------------------------------------------------- bit arithmetic
split_neg(sq, mask) == {b \in mask : b < sq}

split_pos(sq, mask) == {b \in mask : b > sq}

rank_mask(sq) == Shl(RANK_1, (sq \div 8) * 8)

file_mask(sq) == Shl(FILE_A, sq % 8)

diagonal(sq) ==
    LET d == (sq \div 8) - (sq % 8)
    IN  IF d >= 0 THEN Shl(MAIN_DIAGONAL, 8 * d) ELSE Shr(MAIN_DIAGONAL, 8 * (0 - d))

antidiagonal(sq) ==
    LET d == (sq \div 8) + (sq % 8) - 7
    IN  IF d >= 0 THEN Shl(MAIN_ANTIDIAGONAL, 8 * d)
        ELSE Shr(MAIN_ANTIDIAGONAL, 8 * (0 - d))

\* A kernel that takes the whole ray, whatever stands on it.
diff_obs_unobstructed(ray, neg_total, pos_total) == ray

diff_obs(ray, neg_total, pos_total) ==
    LET neg_hit == ray \cap neg_total
        pos_hit == ray \cap pos_total
        ms1b == MaxOf(neg_hit \cup {0})
        diff == Xor(pos_hit, wrapping_sub_bit(pos_hit, ms1b))
    IN  ray \cap diff

\* The SIMD variants run diff_obs on each lane and OR the lanes together.
diff_obs_simdx2(rays, neg_total, pos_total) ==
    UNION {diff_obs(rays[i], neg_total, pos_total) : i \in 1..2}

diff_obs_simdx4(rays, neg_total, pos_total) ==
    UNION {diff_obs(rays[i], neg_total, pos_total) : i \in 1..4}

rank_and_file(sq) == <<rank_mask(sq), file_mask(sq)>>

rook_diff_obs_simdx2(sq, total) ==
    diff_obs_simdx2(rank_and_file(sq), split_neg(sq, total), split_pos(sq, total))
      \ Bit(sq)

bishop_diff_obs_simdx2(sq, total) ==
    diff_obs_simdx2(<<diagonal(sq), antidiagonal(sq)>>,
                    split_neg(sq, total), split_pos(sq, total)) \ Bit(sq)

queen_diff_obs_simdx4(sq, total) ==
    diff_obs_simdx4(rank_and_file(sq) \o <<diagonal(sq), antidiagonal(sq)>>,
                    split_neg(sq, total), split_pos(sq, total)) \ Bit(sq)

white_pawn_attack_fill(mask) ==
    (Shl(mask, 7) \ FILE_H) \cup (Shl(mask, 9) \ FILE_A)

black_pawn_attack_fill(mask) ==
    (Shr(mask, 7) \ FILE_A) \cup (Shr(mask, 9) \ FILE_H)

white_pawn_advance_fill(mask, empty) ==
    (Shl(mask, 8) \cap empty)
      \cup (Shl(Shl(mask \cap RANK_2, 8) \cap empty, 8) \cap empty)

black_pawn_advance_fill(mask, empty) ==
    (Shr(mask, 8) \cap empty)
      \cup (Shr(Shr(mask \cap RANK_7, 8) \cap empty, 8) \cap empty)

king_dumbfill_simdx4(mask) ==
    (Shl(mask, 7) \ FILE_H) \cup Shl(mask, 8) \cup (Shl(mask, 9) \ FILE_A)
      \cup (Shl(mask, 1) \ FILE_A)
      \cup (Shr(mask, 7) \ FILE_A) \cup Shr(mask, 8) \cup (Shr(mask, 9) \ FILE_H)
      \cup (Shr(mask, 1) \ FILE_H)

\* A knight fill that lets the shifted bits wrap across the a and h files.
knight_dumbfill_wrapping(mask) ==
    Shl(mask, 6) \cup Shl(mask, 15) \cup Shl(mask, 17) \cup Shl(mask, 10)
      \cup Shr(mask, 6) \cup Shr(mask, 15) \cup Shr(mask, 17) \cup Shr(mask, 10)

knight_dumbfill_simdx4(mask) ==
    (Shl(mask, 6) \ FILE_GH) \cup (Shl(mask, 15) \ FILE_H)
      \cup (Shl(mask, 17) \ FILE_A) \cup (Shl(mask, 10) \ FILE_AB)
      \cup (Shr(mask, 6) \ FILE_AB) \cup (Shr(mask, 15) \ FILE_A)
      \cup (Shr(mask, 17) \ FILE_H) \cup (Shr(mask, 10) \ FILE_GH)

\* ---------------------------------------------------------------- vision
\* MostlyBits: bit-blit pawns, dumbfill knight and king, obstruction
\* difference sliders.  `shl` selects the white (TRUE) or black pawn blitter.
PawnsBitBlit_surveil(shl, mask) ==
    IF shl THEN white_pawn_attack_fill(mask) ELSE black_pawn_attack_fill(mask)

PawnsBitBlit_advance(shl, total, mask) ==
    IF shl THEN white_pawn_advance_fill(mask, Not(total))
    ELSE black_pawn_advance_fill(mask, Not(total))

\* Vision::see of the pawn blitters (the trait default: surveil of one bit).
PawnVision_see(shl, sq) == PawnsBitBlit_surveil(shl, Bit(sq))

PawnVision_hits(shl, sq, enemy_and_eps) == PawnVision_see(shl, sq) \cap enemy_and_eps

PawnVision_push(shl, total, sq) == PawnsBitBlit_advance(shl, total, Bit(sq))

\* Vision::see per piece kind.
Vision_see(piece, total, sq) ==
    CASE piece = KNIGHT -> knight_dumbfill_simdx4(Bit(sq))
      [] piece = BISHOP -> bishop_diff_obs_simdx2(sq, total)
      [] piece = ROOK -> rook_diff_obs_simdx2(sq, total)
      [] piece = QUEEN -> queen_diff_obs_simdx4(sq, total)
      [] piece = KING -> king_dumbfill_simdx4(Bit(sq))

\* Vision::surveil: overridden by the dumbfills, the trait default (a
\* biterate! loop over see) for the sliders.
Vision_surveil(piece, total, mask) ==
    CASE piece = KNIGHT -> knight_dumbfill_simdx4(mask)
      [] piece = KING -> king_dumbfill_simdx4(mask)
      [] OTHER -> UNION {Vision_see(piece, total, sq) : sq \in Range(biterate(mask))}

\* The default surveil runs biterate! on its mask.
Vision_surveil_overflows(piece, mask) ==
    piece \in {BISHOP, ROOK, QUEEN} /\ biterate_overflows(mask)

PieceVision_hits(piece, total, sq, friendly) == Vision_see(piece, total, sq) \ friendly

\* ---------------------------------------------------------------- castling
CLASSIC_CASTLING ==
    [rook_move  |-> <<{5, 7, 61, 63}, {0, 3, 56, 59}>>,
     king_move  |-> <<{4, 6, 60, 62}, {2, 4, 58, 60}>>,
     safety     |-> <<{4, 5, 6, 60, 61, 62}, {2, 3, 4, 58, 59, 60}>>,
     space      |-> <<{5, 6, 61, 62}, {1, 2, 3, 57, 58, 59}>>,
     back_rank  |-> <<0..7, 56..63>>,
     rook_start |-> <<<<7, 0>>, <<63, 56>>>>,
     king_start |-> <<4, 60>>,
     king_end   |-> <<<<6, 2>>, <<62, 58>>>>]

\* Arrays of the source are indexed from 0, tuples here from 1.
ix(i) == i + 1

\* ---------------------------------------------------------------- boards
Layouts == {"Compact", "Full", "Fuller"}

NoEnPassant == [some |-> FALSE, square |-> 0, capture |-> 0]

SomeEnPassant(square, capture) == [some |-> TRUE, square |-> square, capture |-> capture]

EmptyPlanes == [k \in Echelons |-> {}]

\* The position of the start array, shared by the three constructors.
WhiteStart == [k \in Echelons |->
    CASE k = PAWN -> 8..15 [] k = KNIGHT -> {1, 6} [] k = BISHOP -> {2, 5}
      [] k = ROOK -> {0, 7} [] k = QUEEN -> {3} [] k = KING -> {4}]

\* u64::swap_bytes mirrors the ranks.
swap_bytes(m) == {(7 - (s \div 8)) * 8 + (s % 8) : s \in m}

men(b, color, ech) ==
    IF b.layout = "Compact" THEN b.ech[ech] \cap b.colors[color]
    ELSE b.masks[color][ech]

bitor_sum(data) == UNION {data[i] : i \in DOMAIN data}

color(b, c) ==
    CASE b.layout = "Compact" -> b.colors[c]
      [] b.layout = "Full" -> bitor_sum(b.masks[c])
      [] b.layout = "Fuller" -> b.total[c]

total(b) ==
    CASE b.layout = "Compact" -> b.colors[WHITE] \cup b.colors[BLACK]
      [] b.layout = "Full" -> color(b, WHITE) \cup color(b, BLACK)
      [] b.layout = "Fuller" -> bitor_sum(b.total)

xor(b, c, ech, mask) ==
    CASE b.layout = "Compact" ->
           [b EXCEPT !.ech[ech] = Xor(@, mask), !.colors[c] = Xor(@, mask)]
      [] b.layout = "Full" ->
           [b EXCEPT !.masks[c][ech] = Xor(@, mask)]
      [] b.layout = "Fuller" ->
           [b EXCEPT !.masks[c][ech] = Xor(@, mask), !.total[c] = Xor(@, mask)]

\* First commoner kind (pawn .. queen) with a man on the square, else NONE.
comm_at(b, sq) ==
    LET on(k) == IF b.layout = "Compact" THEN sq \in b.ech[k]
                 ELSE sq \in b.masks[WHITE][k] \/ sq \in b.masks[BLACK][k]
        hit == {k \in Commoners : on(k)}
    IN  IF hit = {} THEN NONE ELSE MinOf(hit)

\* The six kind planes of one colour, as the attack provider reads them.
side(b, c) == [k \in Echelons |-> men(b, c, k)]

\* ---------------------------------------------------------------- hashing
\* FullZobristTables: one independent random key per (colour, kind, square),
\* per en-passant file, per castling right, and one for black to move.  A
\* hash value is the set of keys XORed into it.
masks_key(c, ech, sq) == c * 384 + (ech - 1) * 64 + sq

ep_files_key(file) == 768 + file

rights_key(c, d) == 776 + 2 * c + d

black_to_move_key == 780

hash_en_passant(ep) == IF ep.some THEN {ep_files_key(ep.capture % 8)} ELSE {}

\* The rights argument is not read.
hash_rights(rights) ==
    XorAll(<<{rights_key(WHITE, EAST)}, {rights_key(WHITE, WEST)},
             {rights_key(BLACK, EAST)}, {rights_key(BLACK, WEST)}>>)

black == {black_to_move_key}

\* The keys of the squares the loop of hash_mask visits, XORed.
hash_mask_squares(c, man, sqs) ==
    XorAll([i \in DOMAIN sqs |-> {masks_key(c, man, sqs[i])}])

hash_mask(c, man, mask) == hash_mask_squares(c, man, biterate(mask))

hash_move(player, man, bits) == hash_mask(player, man, bits)

hash_square(player, man, sq) == {masks_key(player, man, sq)}

hash_castling(player, king_bits, rook_bits) ==
    Xor(hash_mask(player, KING, king_bits), hash_mask(player, ROOK, rook_bits))

hash_full_bitboard(masks) ==
    XorAll([n \in 1..12 |->
        LET c == (n - 1) \div 6
            m == ((n - 1) % 6) + 1
        IN  hash_mask(c, m, masks[c][m])])

hash_compact(colors, ech) ==
    XorAll([n \in 1..12 |->
        LET c == (n - 1) \div 6
            m == ((n - 1) % 6) + 1
        IN  hash_mask(c, m, colors[c] \cap ech[m])])

\* DefaultMetaBoard::rehash
meta_rehash(b) ==
    Xor(Xor(black, hash_rights(b.trans.rights)), hash_en_passant(b.trans.en_passant))

rehash(b) ==
    IF b.layout = "Compact" THEN Xor(meta_rehash(b), hash_compact(b.colors, b.ech))
    ELSE Xor(meta_rehash(b), hash_full_bitboard(b.masks))

\* ------------------------------------------------------- start positions
Transients_startpos ==
    [en_passant |-> NoEnPassant,
     halfmove_clock |-> 0,
     rights |-> [c \in {WHITE, BLACK} |-> [d \in {EAST, WEST} |-> TRUE]]]

\* Fields a layout does not have are left empty.
BlankBoard(layout) ==
    [layout |-> layout,
     ech |-> EmptyPlanes,
     colors |-> [c \in {WHITE, BLACK} |-> {}],
     masks |-> [c \in {WHITE, BLACK} |-> EmptyPlanes],
     total |-> [c \in {WHITE, BLACK} |-> {}],
     hash |-> {},
     turn |-> 1,
     player |-> WHITE,
     trans |-> Transients_startpos]

CompactBitBoard_startpos ==
    LET res == [BlankBoard("Compact") EXCEPT
                  !.ech = [k \in Echelons |-> WhiteStart[k] \cup swap_bytes(WhiteStart[k])],
                  !.colors = [c \in {WHITE, BLACK} |-> IF c = WHITE THEN 0..15 ELSE 48..63]]
    IN  [res EXCEPT !.hash = rehash(res)]

FullBitBoard_startpos(layout) ==
    LET res == [BlankBoard(layout) EXCEPT
                  !.masks = [c \in {WHITE, BLACK} |->
                     [k \in Echelons |->
                        IF c = WHITE THEN WhiteStart[k] ELSE swap_bytes(WhiteStart[k])]]]
    IN  [res EXCEPT !.hash = rehash(res)]

FullerBitBoard_startpos ==
    [FullBitBoard_startpos("Fuller") EXCEPT
       !.total = [c \in {WHITE, BLACK} |-> IF c = WHITE THEN 8..15 ELSE 48..55]]

startpos(layout) ==
    CASE layout = "Compact" -> CompactBitBoard_startpos
      [] layout = "Full" -> FullBitBoard_startpos("Full")
      [] layout = "Fuller" -> FullerBitBoard_startpos

\* ------------------------------------------------------- the three visitors
\* make_legal_move is generic over the board it drives.  A visitor is the
\* real board ("real"), MoveOnly around a board ("moveonly": planes only,
\* every metadata write and every hash dropped) or HashOnly ("hashonly": a
\* hash, a fixed copy of the transients and of the mover; nothing else).
RealBoard(b) == [mode |-> "real", bb |-> b, h |-> {}, t |-> b.trans, p |-> b.player]

\* A wrapper that hands every write on to the board it wraps.
MoveOnly_writes_through(b) == [mode |-> "real", bb |-> b, h |-> {}, t |-> b.trans, p |-> b.player]

MoveOnly(b) == [mode |-> "moveonly", bb |-> b, h |-> {}, t |-> b.trans, p |-> b.player]

\* A hash-only visitor that starts from the zero hash and not from the hash of
\* the board it previews.
HashOnly_from_zero(hash0, trans0, player0, b) ==
    [mode |-> "hashonly", bb |-> b, h |-> {}, t |-> trans0, p |-> player0]

HashOnly(hash0, trans0, player0, b) ==
    [mode |-> "hashonly", bb |-> b, h |-> hash0, t |-> trans0, p |-> player0]

V_trans(v) == IF v.mode = "hashonly" THEN v.t ELSE v.bb.trans

V_player(v) == IF v.mode = "hashonly" THEN v.p ELSE v.bb.player

V_castling(v) == CLASSIC_CASTLING

V_set_halfmove_clock(v, val) ==
    IF v.mode = "real" THEN [v EXCEPT !.bb.trans.halfmove_clock = val] ELSE v

V_set_castling_rights(v, rights) ==
    IF v.mode = "real" THEN [v EXCEPT !.bb.trans.rights = rights] ELSE v

V_set_en_passant(v, eps) ==
    IF v.mode = "real" THEN [v EXCEPT !.bb.trans.en_passant = eps] ELSE v

V_set_transients(v, trans) ==
    IF v.mode = "real" THEN [v EXCEPT !.bb.trans = trans] ELSE v

V_curr_hash(v) ==
    CASE v.mode = "real" -> v.bb.hash
      [] v.mode = "moveonly" -> {}
      [] v.mode = "hashonly" -> v.h

V_hash(v, hash) ==
    CASE v.mode = "real" -> [v EXCEPT !.bb.hash = Xor(@, hash)]
      [] v.mode = "moveonly" -> v
      [] v.mode = "hashonly" -> [v EXCEPT !.h = Xor(@, hash)]

V_xor(v, c, ech, mask) ==
    IF v.mode = "hashonly" THEN v ELSE [v EXCEPT !.bb = xor(v.bb, c, ech, mask)]

\* The turn counter is a u16.
next_ply(v) ==
    IF v.mode # "real" THEN v
    ELSE LET player == opp(v.bb.player)
         IN  [v EXCEPT !.bb.player = player,
                       !.bb.turn = IF player = WHITE THEN (@ + 1) % 65536 ELSE @]

\* A prev_ply that gives the turn back to nobody: the player stays.
prev_ply_keeps_player(v) == v

prev_ply(v) ==
    IF v.mode # "real" THEN v
    ELSE [v EXCEPT !.bb.turn = IF v.bb.player = WHITE THEN (@ + 65535) % 65536 ELSE @,
                   !.bb.player = opp(v.bb.player)]

\* ------------------------------------------------------------ making moves
\* A move is [from, to, ech, special, capture]; special and capture are NONE
\* or the discriminant of the source's enum.  Each step is written as the
\* composition of the calls the source makes in sequence on the visitor.

\* A rook_rights_loss that never clears a right.
rook_rights_loss_dir_keeps(v, c, sq, dir) == v

\* One pass of the loop over [EAST, WEST].
rook_rights_loss_dir(v, c, sq, dir) ==
    IF sq # V_castling(v).rook_start[ix(c)][ix(dir)] THEN v
    ELSE V_hash(
           V_set_castling_rights(
             V_hash(v, hash_rights(V_trans(v).rights)),
             [V_trans(v).rights EXCEPT ![c][dir] = FALSE]),
           hash_rights([V_trans(v).rights EXCEPT ![c][dir] = FALSE]))

rook_rights_loss(v, piece, c, sq) ==
    IF piece # ROOK THEN v
    ELSE rook_rights_loss_dir(rook_rights_loss_dir(v, c, sq, EAST), c, sq, WEST)

capturing_move(v, mv, sq) ==
    IF mv.capture = NONE THEN v
    ELSE V_hash(
           rook_rights_loss(
             V_xor(V_set_halfmove_clock(v, 0), opp(V_player(v)), mv.capture, Bit(sq)),
             mv.capture, opp(V_player(v)), mv.to),
           hash_square(opp(V_player(v)), mv.capture, sq))

\* The half-move clock is a u8: the increment wraps without overflow checks
\* and panics with them (simple_move_overflows).
simple_move(v, mv) ==
    IF mv.special # NONE
    THEN V_set_halfmove_clock(v, (V_trans(v).halfmove_clock + 1) % 256)
    ELSE V_hash(
           capturing_move(
             rook_rights_loss(
               V_xor(V_set_halfmove_clock(v, (V_trans(v).halfmove_clock + 1) % 256),
                     V_player(v), mv.ech, Bit(mv.from) \cup Bit(mv.to)),
               mv.ech, V_player(v), mv.from),
             mv, mv.to),
           hash_move(V_player(v), mv.ech, Bit(mv.from) \cup Bit(mv.to)))

simple_move_overflows(v) == V_trans(v).halfmove_clock = 255

promotion_move(v, mv) ==
    IF mv.special \notin KNIGHT..QUEEN THEN v
    ELSE V_hash(
           V_hash(
             capturing_move(
               V_xor(V_xor(v, V_player(v), PAWN, Bit(mv.from)),
                     V_player(v), mv.special, Bit(mv.to)),
               mv, mv.to),
             hash_square(V_player(v), PAWN, mv.from)),
           hash_square(V_player(v), mv.special, mv.to))

abs_diff(a, b) == IF a >= b THEN a - b ELSE b - a

\* pawn_special up to its early return: the en-passant square is dropped, a
\* pawn move resets the clock, the old en-passant key leaves the hash.
pawn_special_reset(v, mv) ==
    V_hash(
      IF mv.ech = PAWN
      THEN V_set_halfmove_clock(V_set_en_passant(v, NoEnPassant), 0)
      ELSE V_set_en_passant(v, NoEnPassant),
      hash_en_passant(V_trans(v).en_passant))

\* The square a double push leaves vulnerable.
pawn_special_vulnerable(mv) ==
    SomeEnPassant(from_u8((IF mv.from < mv.to THEN mv.from ELSE mv.to) + 8), mv.to)

\* The end of pawn_special: a move over two ranks sets the en-passant square.
pawn_special_double(v, mv) ==
    IF abs_diff(mv.from, mv.to) = 16
    THEN V_hash(V_set_en_passant(v, pawn_special_vulnerable(mv)),
                hash_en_passant(pawn_special_vulnerable(mv)))
    ELSE v

\* A pawn special that takes the man off the square the pawn arrives on.
pawn_special_pawn_takes_on_arrival(v, mv, en_passant) ==
    pawn_special_double(
      IF en_passant.some
      THEN capturing_move(
             V_hash(V_xor(v, V_player(v), PAWN, Bit(mv.from) \cup Bit(mv.to)),
                    hash_move(V_player(v), PAWN, Bit(mv.from) \cup Bit(mv.to))),
             mv, mv.to)
      ELSE V_hash(V_xor(v, V_player(v), PAWN, Bit(mv.from) \cup Bit(mv.to)),
                  hash_move(V_player(v), PAWN, Bit(mv.from) \cup Bit(mv.to))),
      mv)

\* pawn_special after its early return; en_passant is what the transients
\* held on entry.
pawn_special_pawn(v, mv, en_passant) ==
    pawn_special_double(
      IF en_passant.some
      THEN capturing_move(
             V_hash(V_xor(v, V_player(v), PAWN, Bit(mv.from) \cup Bit(mv.to)),
                    hash_move(V_player(v), PAWN, Bit(mv.from) \cup Bit(mv.to))),
             mv, en_passant.capture)
      ELSE V_hash(V_xor(v, V_player(v), PAWN, Bit(mv.from) \cup Bit(mv.to)),
                  hash_move(V_player(v), PAWN, Bit(mv.from) \cup Bit(mv.to))),
      mv)

pawn_special(v, mv) ==
    IF mv.special # SP_PAWN THEN pawn_special_reset(v, mv)
    ELSE pawn_special_pawn(pawn_special_reset(v, mv), mv, V_trans(v).en_passant)

\* A castle that moves the king and leaves the rook where it stands.
castling_move_castle_king_only(v, king_move, rook_move) ==
    V_hash(
      V_set_castling_rights(
        V_xor(
          V_set_halfmove_clock(
            V_hash(V_hash(v, hash_rights(V_trans(v).rights)),
                   hash_rights([V_trans(v).rights EXCEPT
                                  ![V_player(v)] = [d \in {EAST, WEST} |-> FALSE]])),
            (V_trans(v).halfmove_clock + 1) % 256),
          V_player(v), KING, king_move),
        [V_trans(v).rights EXCEPT ![V_player(v)] = [d \in {EAST, WEST} |-> FALSE]]),
      hash_castling(V_player(v), king_move, {}))

\* castling_move once the move is known to be a castle: king_move and
\* rook_move are the masks cut to the mover's back rank.
castling_move_castle(v, king_move, rook_move) ==
    V_hash(
      V_set_castling_rights(
        V_xor(
          V_xor(
            V_set_halfmove_clock(
              V_hash(V_hash(v, hash_rights(V_trans(v).rights)),
                     hash_rights([V_trans(v).rights EXCEPT
                                    ![V_player(v)] = [d \in {EAST, WEST} |-> FALSE]])),
              (V_trans(v).halfmove_clock + 1) % 256),
            V_player(v), KING, king_move),
          V_player(v), ROOK, rook_move),
        [V_trans(v).rights EXCEPT ![V_player(v)] = [d \in {EAST, WEST} |-> FALSE]]),
      hash_castling(V_player(v), king_move, rook_move))

castling_move(v, mv) ==
    IF mv.special < SP_EAST THEN v
    ELSE castling_move_castle(v,
           V_castling(v).king_move[ix(mv.special - SP_EAST)]
             \cap V_castling(v).back_rank[ix(V_player(v))],
           V_castling(v).rook_move[ix(mv.special - SP_EAST)]
             \cap V_castling(v).back_rank[ix(V_player(v))])

castling_move_overflows(v, mv) ==
    mv.special >= SP_EAST /\ V_trans(v).halfmove_clock = 255

\* make_legal_move: the visitor after the move, and the transients it returns.
make_legal_move(v, mv) ==
    [v |-> next_ply(castling_move(pawn_special(promotion_move(simple_move(v, mv), mv), mv), mv)),
     res |-> V_trans(v)]

\* An overflow-checked build panics in make_legal_move on these inputs.
make_legal_move_overflows(v, mv) ==
    simple_move_overflows(v)
      \/ castling_move_overflows(pawn_special(promotion_move(simple_move(v, mv), mv), mv), mv)

unmake_legal_move(v, mv, trans) ==
    V_set_transients(
      castling_move(
        pawn_special(
          promotion_move(
            simple_move(prev_ply(V_set_transients(v, trans)), mv),
            mv),
          mv),
        mv),
      trans)

clone_make_pseudolegal_move(b, mv) == make_legal_move(MoveOnly(b), mv).v.bb

hash_prospective_move(b, mv) ==
    make_legal_move(HashOnly(b.hash, b.trans, b.player, b), mv).v.h

\* ------------------------------------------------------------- attack masks
check(atks) == (atks.attack \cap atks.targeted_king) # {}

\* knight ^ bishop ^ rook ^ queen ^ king
attacks_from_echarray_pieces(pan, echs) ==
    XorAll([n \in 1..5 |-> Vision_surveil(n + 1, pan, echs[n + 1])])

attacks_from_echarray_black(pan, echs) ==
    Xor(PawnsBitBlit_surveil(FALSE, echs[PAWN]), attacks_from_echarray_pieces(pan, echs))

attacks_from_echarray_white(pan, echs) ==
    Xor(PawnsBitBlit_surveil(TRUE, echs[PAWN]), attacks_from_echarray_pieces(pan, echs))

\* FakeMoveSimpleStrategyGenerator::attacks
attacks(b, player) ==
    IF player = WHITE
    THEN [attack |-> attacks_from_echarray_white(total(b), side(b, WHITE)),
          targeted_king |-> men(b, BLACK, KING)]
    ELSE [attack |-> attacks_from_echarray_black(total(b), side(b, WHITE)),
          targeted_king |-> men(b, WHITE, KING)]

attacks_overflows(b) ==
    \E piece \in {BISHOP, ROOK, QUEEN} : Vision_surveil_overflows(piece, side(b, WHITE)[piece])

attacks_after(b, c, mv) == attacks(clone_make_pseudolegal_move(b, mv), c)

\* The scratch move of attacks_after is make_legal_move on MoveOnly, whose
\* transients are the board's: its clock never moves.
attacks_after_overflows(b, mv) ==
    b.trans.halfmove_clock = 255
      \/ attacks_overflows(clone_make_pseudolegal_move(b, mv))

\* ------------------------------------------------------------ the generator
Move(from, to, ech, special, capture) ==
    [from |-> from, to |-> to, ech |-> ech, special |-> special, capture |-> capture]

\* A blesser is the blessing strategy ("legal" for LegalBlessing, "none" for
\* NoBlessing) with the attack mask cached at construction.
MoveBlesser_new(strategy, b) ==
    [strategy |-> strategy,
     cached_attack |-> IF strategy = "legal" THEN attacks(b, b.player).attack ELSE {}]

bless(blesser, b, mv) ==
    IF blesser.strategy = "none" THEN TRUE
    ELSE IF check(attacks_after(b, b.player, mv)) THEN FALSE
    ELSE IF mv.special >= SP_EAST
         THEN ~check([attack |-> blesser.cached_attack,
                      targeted_king |-> CLASSIC_CASTLING.safety[ix(mv.special - SP_EAST)]
                                          \cap CLASSIC_CASTLING.back_rank[ix(b.player)]])
    ELSE TRUE

\* bless_into on each candidate in the order the generator proposes them:
\* bless reads the board only, so blessing each candidate where it is proposed
\* and blessing the proposals in order leave the same buffer.
bless_into(blesser, b, mvs) ==
    Concat([i \in DOMAIN mvs |-> IF bless(blesser, b, mvs[i]) THEN <<mvs[i]>> ELSE <<>>])

\* The candidates promotions proposes for a pawn move.
promotions(mv) ==
    IF mv.to > 55
    THEN [spc \in 1..4 |-> [mv EXCEPT !.special = spc + 1]]
    ELSE <<mv>>

bit_sq(ep) == IF ep.some THEN Bit(ep.square) ELSE {}

\* The pushes of the pawn on `from` to the squares `tos`, in order.
pawn_pushes(from, tos) ==
    Concat([j \in DOMAIN tos |->
        promotions(Move(from, tos[j], PAWN,
                        IF abs_diff(from, tos[j]) = 16 THEN SP_PAWN ELSE NONE, NONE))])

\* The captures of the pawn on `from` on the squares `tos`, in order.
pawn_takes(b, from, tos) ==
    Concat([j \in DOMAIN tos |->
        promotions(IF comm_at(b, tos[j]) = NONE
                   THEN Move(from, tos[j], PAWN, SP_PAWN, PAWN)
                   ELSE Move(from, tos[j], PAWN, NONE, comm_at(b, tos[j])))])

\* The candidates of the pawns on `froms`.
pawn_moves_from(b, froms, shl) ==
    Concat([i \in DOMAIN froms |->
        pawn_pushes(froms[i], biterate(PawnVision_push(shl, total(b), froms[i])))
          \o pawn_takes(b, froms[i],
                 biterate(PawnVision_hits(shl, froms[i],
                     color(b, opp(b.player)) \cup bit_sq(b.trans.en_passant))))])

pawn_moves(b, pawns, shl) == pawn_moves_from(b, biterate(pawns), shl)

\* The candidates of the piece on `from` to the squares `tos`.
piece_hits(b, from, tos, piece) ==
    [j \in DOMAIN tos |-> Move(from, tos[j], piece, NONE, comm_at(b, tos[j]))]

piece_moves_from(b, froms, friendly, piece) ==
    Concat([i \in DOMAIN froms |->
        piece_hits(b, froms[i],
                   biterate(PieceVision_hits(piece, total(b), froms[i], friendly)), piece)])

piece_moves(b, pieces, friendly, piece) ==
    piece_moves_from(b, biterate(pieces), friendly, piece)

\* The castling candidates: the right is held and the space is free.
movegen_castling_move(b, occupied) ==
    Concat([n \in 1..2 |->
        IF ~b.trans.rights[b.player][n - 1] THEN <<>>
        ELSE IF (CLASSIC_CASTLING.space[n]
                   \cap CLASSIC_CASTLING.back_rank[ix(b.player)] \cap occupied) # {}
        THEN <<>>
        ELSE <<Move(CLASSIC_CASTLING.king_start[ix(b.player)],
                    CLASSIC_CASTLING.king_end[ix(b.player)][n],
                    KING, SP_EAST + (n - 1), NONE)>>])

\* The moves enumerate proposes to the blesser, in order: pawns, knights,
\* bishops, rooks, queens, king, castles.
candidates(b) ==
    pawn_moves(b, men(b, b.player, PAWN), b.player = WHITE)
      \o Concat([n \in 1..5 |->
            piece_moves(b, men(b, b.player, n + 1), color(b, b.player), n + 1)])
      \o movegen_castling_move(b, total(b))

\* enumerate: the buffer it leaves, in emission order.
enumerate(b, strategy) == bless_into(MoveBlesser_new(strategy, b), b, candidates(b))

\* Whether some biterate! of the run is handed an empty mask, or a blessing's
\* scratch move overflows the clock: an overflow-checked build panics there.
enumerate_overflows(b) ==
    \/ attacks_overflows(b)
    \/ biterate_overflows(men(b, b.player, PAWN))
    \/ \E from \in Range(biterate(men(b, b.player, PAWN))) :
          \/ biterate_overflows(PawnVision_push(b.player = WHITE, total(b), from))
          \/ biterate_overflows(PawnVision_hits(b.player = WHITE, from,
                 color(b, opp(b.player)) \cup bit_sq(b.trans.en_passant)))
    \/ \E piece \in KNIGHT..KING :
          \/ biterate_overflows(men(b, b.player, piece))
          \/ \E from \in Range(biterate(men(b, b.player, piece))) :
                biterate_overflows(PieceVision_hits(piece, total(b), from, color(b, b.player)))
    \/ \E mv \in Range(candidates(b)) : attacks_after_overflows(b, mv)

\* ----------------------------------------------------------------- perft
\* CoordNotation::from: the key of the breakdown map.
CoordNotation(mv) ==
    [from |-> mv.from, to |-> mv.to,
     prom |-> IF mv.special \in KNIGHT..QUEEN THEN mv.special ELSE NONE]

\* Nodes counted under one first move: 1 at depth 1, the length of the reply
\* buffer at depth 2 (perft_recurse at depth 1 counts one per move).
perft_under(b, mv, depth) ==
    IF depth = 1 THEN 1
    ELSE Len(enumerate(make_legal_move(RealBoard(b), mv).v.bb, "legal"))

RECURSIVE SumOver(_, _)
SumOver(f, keys) ==
    IF keys = {} THEN 0
    ELSE LET k == CHOOSE x \in keys : TRUE IN f[k] + SumOver(f, keys \ {k})

\* perft for depth 1 and 2: the sum of the breakdown map, an entry per
\* distinct notation, a later move with the same notation replacing the entry.
perft(layout, depth) ==
    LET start == startpos(layout)
        firstmoves == enumerate(start, "legal")
        keys == {CoordNotation(firstmoves[i]) : i \in DOMAIN firstmoves}
        last(k) == MaxOf({i \in DOMAIN firstmoves : CoordNotation(firstmoves[i]) = k})
        breakdown == [k \in keys |-> perft_under(start, firstmoves[last(k)], depth)]
    IN  IF depth = 0 THEN 0 ELSE SumOver(breakdown, keys)

\* ------------------------------------------------------------ state machine
\* The perft driver with the MakeUnmake recursion strategy, run on one board
\* of one layout by one build of the crate.
VARIABLES
    build,      \* "debug": overflow checks on; "release": overflow checks off
    board,      \* the board under the driver
    frames,     \* one UnmakeClaim per move made and not yet unmade
    buffer,     \* the move buffer of the current level
    phase,      \* "ready": buffer stale; "listed": buffer filled; "panicked"
    lastop,     \* the operation that produced this state
    reclaimed,  \* of the move just unmade: the board before it, and what it captured
    probe       \* the last call of a kernel outside the driver: inputs and output

vars == <<build, board, frames, buffer, phase, lastop, reclaimed, probe>>

Builds == {"debug", "release"}

\* No kernel has been called on its own.
NoProbe == [fn |-> "none"]

\* A claim: the move, the transients make_legal_move returned, the buffer
\* of the level the move was taken from, and two records kept for the
\* properties below: the board before the move and the previewed hash.
Claim(mv, trans, moves, before, preview) ==
    [mv |-> mv, trans |-> trans, moves |-> moves, before |-> before, preview |-> preview]

Init ==
    /\ build \in Builds
    /\ \E layout \in Layouts : board = startpos(layout)
    /\ frames = <<>>
    /\ buffer = <<>>
    /\ phase = "ready"
    /\ lastop = "startpos"
    /\ reclaimed = [before |-> board, capture |-> NONE]
    /\ probe = NoProbe

\* enumerate::<BB, MostlyBits, LegalBlessing<FakeMoveSimplStrategy>> on the board.
Enumerate ==
    /\ phase = "ready"
    /\ Len(frames) < MaxPly
    /\ ~(build = "debug" /\ enumerate_overflows(board))
    /\ buffer' = enumerate(board, "legal")
    /\ phase' = "listed"
    /\ lastop' = "enumerate"
    /\ UNCHANGED <<build, board, frames, reclaimed, probe>>

\* The same call in a build with overflow checks, on a board where it panics.
EnumeratePanics ==
    /\ phase = "ready"
    /\ Len(frames) < MaxPly
    /\ build = "debug" /\ enumerate_overflows(board)
    /\ phase' = "panicked"
    /\ lastop' = "panic"
    /\ UNCHANGED <<build, board, frames, buffer, reclaimed, probe>>

\* MakeUnmake::recurse on a move of the buffer: make_legal_move, keeping the
\* move and the returned transients as the claim.  The claim also records what
\* the board was and what hash_prospective_move said beforehand.
Recurse ==
    /\ phase = "listed"
    /\ Len(frames) < MaxPly
    /\ \E i \in DOMAIN buffer :
          IF build = "debug" /\ make_legal_move_overflows(RealBoard(board), buffer[i])
          THEN /\ phase' = "panicked"
               /\ lastop' = "panic"
               /\ UNCHANGED <<board, frames, buffer>>
          ELSE \E made \in {make_legal_move(RealBoard(board), buffer[i])} :
                  /\ board' = made.v.bb
                  /\ frames' = Append(frames,
                        Claim(buffer[i], made.res, buffer, board,
                              hash_prospective_move(board, buffer[i])))
                  /\ buffer' = <<>>
                  /\ phase' = "ready"
                  /\ lastop' = "make"
    /\ UNCHANGED <<build, reclaimed, probe>>

\* MakeUnmake::reclaim: unmake_legal_move with the claim's move and transients.
Reclaim ==
    /\ phase \in {"ready", "listed"}
    /\ frames # <<>>
    /\ \E claim \in {frames[Len(frames)]} :
          /\ board' = unmake_legal_move(RealBoard(board), claim.mv, claim.trans).bb
          /\ buffer' = claim.moves
          /\ reclaimed' = [before |-> claim.before, capture |-> claim.mv.capture]
    /\ frames' = SubSeq(frames, 1, Len(frames) - 1)
    /\ phase' = "listed"
    /\ lastop' = "unmake"
    /\ UNCHANGED <<build, probe>>

Next == Enumerate \/ EnumeratePanics \/ Recurse \/ Reclaim

Spec == Init /\ [][Next]_vars

\* ------------------------------------------------- notions the claims use
\* The claim of the move made last, and the move itself.
Top == frames[Len(frames)]

JustMade == lastop = "make" /\ frames # <<>>

\* A kind plane: the squares holding a man of the kind, of either colour.
KindPlane(b, k) ==
    IF b.layout = "Compact" THEN b.ech[k] ELSE men(b, WHITE, k) \cup men(b, BLACK, k)

Occupancy(b) == UNION {men(b, c, k) : c \in {WHITE, BLACK}, k \in Echelons}

\* The squares a man of colour c and kind k standing on sq attacks.
SeenFrom(b, c, k, sq) ==
    IF k = PAWN THEN PawnVision_see(c = WHITE, sq) ELSE Vision_see(k, Occupancy(b), sq)

\* The squares attacked by the men of colour c.
AttackedBy(b, c) ==
    UNION {SeenFrom(b, c, k, sq) : <<k, sq>> \in {<<k, sq>> \in Echelons \X ALL : sq \in men(b, c, k)}}

\* Some king of colour c is attacked by a man of the other colour.
InCheck(b, c) == (men(b, c, KING) \cap AttackedBy(b, opp(c))) # {}

\* What the three observers of a board return.
Observe(b) ==
    [men |-> [c \in {WHITE, BLACK} |-> [k \in Echelons |-> men(b, c, k)]],
     color |-> [c \in {WHITE, BLACK} |-> color(b, c)],
     total |-> total(b)]

\* The board of another layout after the moves of the frames, from its startpos.
RECURSIVE Replay(_, _)
Replay(layout, n) ==
    IF n = 0 THEN startpos(layout)
    ELSE make_legal_move(RealBoard(Replay(layout, n - 1)), frames[n].mv).v.bb

\* ------------------------------------------------------------------ claims
\* C1: bless accepts a non-castling candidate move exactly when, on the scratch
\* board after the move, no man of the opponent attacks the mover's king; and
\* after make_legal_move of an emitted move the side that moved is not in check.
C1_BlessIffKingSafe ==
    /\ (phase = "listed" /\ lastop = "enumerate") =>
          \A mv \in Range(enumerate(board, "none")) :
             mv.special < SP_EAST =>
                (bless(MoveBlesser_new("legal", board), board, mv)
                   <=> ~InCheck(clone_make_pseudolegal_move(board, mv), board.player))
    /\ JustMade => ~InCheck(board, Top.before.player)

\* C2: unmake_legal_move after make_legal_move gives back the board as it was:
\* every plane, the side to move, the transients and the hash; and the
\* transients make_legal_move returns are those the board had before the move.
C2_MakeUnmakeRestores ==
    /\ lastop = "unmake" => board = reclaimed.before
    /\ \A i \in DOMAIN frames : frames[i].trans = frames[i].before.trans

C2_Witness ==
    /\ lastop = "unmake"
    /\ reclaimed.capture # NONE
    /\ board = reclaimed.before
    /\ Len(frames) = 1

\* C3: at startpos and after every make or unmake the incremental hash equals
\* the hash recomputed from the planes and the metadata.
C3_HashIsRehash ==
    lastop \in {"startpos", "make", "unmake"} => board.hash = rehash(board)

\* C4: at startpos and after every make the twelve piece sets are pairwise
\* disjoint, the two colour occupancies are disjoint, and total() is the union
\* of the kind planes and the union of the colour planes.
C4_PlanesPartition ==
    lastop \in {"startpos", "make"} =>
       /\ \A c1, c2 \in {WHITE, BLACK} : \A k1, k2 \in Echelons :
             <<c1, k1>> # <<c2, k2>> => men(board, c1, k1) \cap men(board, c2, k2) = {}
       /\ color(board, WHITE) \cap color(board, BLACK) = {}
       /\ total(board) = UNION {KindPlane(board, k) : k \in Echelons}
       /\ total(board) = color(board, WHITE) \cup color(board, BLACK)

\* C5: on the start position the generator emits exactly 20 moves, 16 of pawns
\* and 4 of knights, and perft counts 20 nodes at depth 1 and 400 at depth 2.
C5_StartposTwenty ==
    /\ ~(frames = <<>> /\ phase = "panicked")
    /\ (frames = <<>> /\ phase = "listed") =>
          /\ Len(buffer) = 20
          /\ Cardinality({i \in DOMAIN buffer : buffer[i].ech = PAWN}) = 16
          /\ Cardinality({i \in DOMAIN buffer : buffer[i].ech = KNIGHT}) = 4
          /\ perft(board.layout, 1) = 20
          /\ perft(board.layout, 2) = 400

\* C6: a castling candidate is accepted exactly when no square of
\* safety[d] & back_rank[c] is attacked by the opponent before the move and the
\* king is not attacked after it.
C6_CastleIffSafe ==
    (phase = "listed" /\ lastop = "enumerate") =>
       \A mv \in Range(enumerate(board, "none")) :
          mv.special >= SP_EAST =>
             (bless(MoveBlesser_new("legal", board), board, mv)
                <=> /\ (CLASSIC_CASTLING.safety[ix(mv.special - SP_EAST)]
                          \cap CLASSIC_CASTLING.back_rank[ix(board.player)]
                          \cap AttackedBy(board, opp(board.player))) = {}
                    /\ ~InCheck(make_legal_move(RealBoard(board), mv).v.bb, board.player))

\* C7: hash_prospective_move returns the hash the board has after
\* make_legal_move of the same move.
C7_PreviewIsMadeHash == JustMade => Top.preview = board.hash

C7_Witness ==
    /\ JustMade
    /\ Top.mv.capture # NONE
    /\ Top.preview = board.hash
    /\ board.hash # Top.before.hash

\* C8: the three layouts return the same men, color and total at startpos and
\* after the same moves, and the same perft counts.
C8_LayoutsAgree ==
    /\ lastop \in {"startpos", "make"} =>
          \A layout \in Layouts : Observe(Replay(layout, Len(frames))) = Observe(board)
    /\ lastop = "startpos" =>
          \A layout \in Layouts : \A depth \in 1..2 :
             perft(layout, depth) = perft(board.layout, depth)

\* C9: after a king move that is not a castle the mover has no castling right.
C9_KingMoveClearsRights ==
    (JustMade /\ Top.mv.ech = KING /\ Top.mv.special < SP_EAST) =>
       /\ ~board.trans.rights[Top.before.player][EAST]
       /\ ~board.trans.rights[Top.before.player][WEST]

\* The right of colour c in direction d that a move of the mover clears: the
\* moved piece is a rook leaving its start square, or the captured piece is a
\* rook of the opponent on its start square.
RookRightCleared(mover, mv, c, d) ==
    \/ c = mover /\ mv.ech = ROOK /\ mv.from = CLASSIC_CASTLING.rook_start[ix(c)][ix(d)]
    \/ c = opp(mover) /\ mv.capture = ROOK /\ mv.to = CLASSIC_CASTLING.rook_start[ix(c)][ix(d)]

\* C10: a move that is neither a castle nor a king move clears exactly the
\* rights of a rook that leaves its start square and of a rook captured on its
\* start square; every other right keeps its value.
C10_RookRightsExactly ==
    (JustMade /\ Top.mv.ech # KING /\ Top.mv.special < SP_EAST) =>
       \A c \in {WHITE, BLACK} : \A d \in {EAST, WEST} :
          board.trans.rights[c][d] =
             (Top.before.trans.rights[c][d] /\ ~RookRightCleared(Top.before.player, Top.mv, c, d))

C10_Witness ==
    /\ JustMade
    /\ Top.mv.ech # KING
    /\ Top.mv.special < SP_EAST
    /\ \E d \in {EAST, WEST} :
          /\ RookRightCleared(Top.before.player, Top.mv, board.player, d)
          /\ Top.mv.capture = ROOK
          /\ Top.before.trans.rights[board.player][d]
          /\ ~board.trans.rights[board.player][d]
          /\ \A e \in {EAST, WEST} : board.trans.rights[Top.before.player][e]

\* A pawn of the mover on its square advancing two ranks without capturing.
DoublePush(b, mv) ==
    /\ mv.ech = PAWN
    /\ mv.capture = NONE
    /\ mv.special = SP_PAWN
    /\ mv.from \in men(b, b.player, PAWN)
    /\ mv.to = IF b.player = WHITE THEN mv.from + 16 ELSE mv.from - 16

\* A move of the buffer that captures en passant.
EnPassantCapture(mv) == mv.ech = PAWN /\ mv.special = SP_PAWN /\ mv.capture # NONE

\* C11: after make_legal_move the en-passant square is set only if the move
\* made was a two-square pawn push, every other move leaves it unset; and a
\* buffer holds an en-passant capture only if the move made just before the
\* buffer was filled was a two-square pawn push.
C11_EnPassantOnlyAfterDoublePush ==
    /\ JustMade => (board.trans.en_passant.some => DoublePush(Top.before, Top.mv))
    /\ phase = "listed" =>
          \A i \in DOMAIN buffer :
             EnPassantCapture(buffer[i]) =>
                frames # <<>> /\ DoublePush(Top.before, Top.mv)

\* The rank a pawn of colour c promotes on: the back rank of its enemy.
PromotionRank(c) == CLASSIC_CASTLING.back_rank[ix(opp(c))]

\* The positions of the candidates that repeat the pawn move mv with the
\* special sp.
SamePawnMove(mvs, mv, sp) ==
    {j \in DOMAIN mvs : mvs[j] = [mv EXCEPT !.special = sp]}

\* C12: a pawn move onto the enemy back rank is generated as exactly four
\* moves, one per promotion piece knight, bishop, rook and queen, and never
\* without a promotion; a pawn move to another rank is generated exactly once
\* and without a promotion.
C12_PromotionOnBackRank ==
    (phase = "listed" /\ lastop = "enumerate") =>
       \A mv \in Range(candidates(board)) :
          mv.ech = PAWN =>
             IF mv.to \in PromotionRank(board.player)
             THEN /\ mv.special \in KNIGHT..QUEEN
                  /\ \A sp \in KNIGHT..QUEEN :
                        Cardinality(SamePawnMove(candidates(board), mv, sp)) = 1
             ELSE /\ mv.special \notin KNIGHT..QUEEN
                  /\ Cardinality(SamePawnMove(candidates(board), mv, mv.special)) = 1

\* C13: after make_legal_move the half-move clock is 0 if the move captured or
\* moved a pawn, and otherwise the clock before the move plus 1, for castles
\* as for every other move.
C13_HalfmoveClock ==
    JustMade =>
       board.trans.halfmove_clock =
          IF Top.mv.capture # NONE \/ Top.mv.ech = PAWN
          THEN 0
          ELSE Top.before.trans.halfmove_clock + 1

\* The hash after make_legal_move of mv on b, XORed with the hash before.
MoveHashDelta(b, mv) == Xor(make_legal_move(RealBoard(b), mv).v.bb.hash, b.hash)

\* C14: every make_legal_move XORs the black_to_move key into the hash; for
\* e2-e4 from the start position the hash changes by key(W,Pawn,e2) XOR
\* key(W,Pawn,e4) XOR ep_file[e] XOR black_to_move; and two positions that
\* differ only in the side to move have hashes that differ by black_to_move.
C14_PlyHashesBlackToMove ==
    /\ JustMade => black_to_move_key \in Xor(board.hash, Top.before.hash)
    /\ lastop = "startpos" =>
          MoveHashDelta(board, Move(12, 28, PAWN, SP_PAWN, NONE))
             = XorAll(<<hash_square(WHITE, PAWN, 12), hash_square(WHITE, PAWN, 28),
                        {ep_files_key(4)}, black>>)
    /\ lastop \in {"startpos", "make"} =>
          Xor(rehash(board), rehash([board EXCEPT !.player = opp(@)])) = black

\* The enemy pawns standing next to square t on its rank, on the board b
\* where the enemy is the side not to move.
AdjacentEnemyPawns(b, t) ==
    {s \in men(b, opp(b.player), PAWN) : s \div 8 = t \div 8 /\ abs_diff(s, t) = 1}

\* C15: after a two-square pawn push to t the en-passant square is set, to
\* the square passed over with t as the square of the pawn to capture, only if
\* an enemy pawn stands next to t on its rank; with no such pawn it is unset.
C15_EnPassantNeedsCapturer ==
    (JustMade /\ DoublePush(Top.before, Top.mv)) =>
       board.trans.en_passant =
          IF AdjacentEnemyPawns(Top.before, Top.mv.to) # {}
          THEN SomeEnPassant((Top.mv.from + Top.mv.to) \div 2, Top.mv.to)
          ELSE NoEnPassant

\* ------------------------------------------------------ kernels on their own
\* The bit kernels are pure functions of their arguments.  Here each is called
\* once, outside the driver, on arguments drawn from bounded sets: every
\* square, and every occupancy of at most MaxBlockers men besides the full
\* board and the occupancy of the start position.
MaxBlockers == 2

RECURSIVE UpToBlockers(_)
UpToBlockers(n) ==
    IF n = 0 THEN {{}}
    ELSE UpToBlockers(n - 1) \cup {T \cup {s} : T \in UpToBlockers(n - 1), s \in ALL}

Occupancies == UpToBlockers(MaxBlockers) \cup {ALL, (0..15) \cup (48..63)}

KernelInit ==
    /\ build \in Builds
    /\ board = CompactBitBoard_startpos
    /\ frames = <<>>
    /\ buffer = <<>>
    /\ phase = "kernels"
    /\ lastop = "startpos"
    /\ reclaimed = [before |-> board, capture |-> NONE]
    /\ probe = NoProbe

ProbeRook ==
    /\ phase = "kernels" /\ probe = NoProbe
    /\ \E sq \in ALL, tot \in Occupancies :
          probe' = [fn |-> "rook_diff_obs_simdx2", sq |-> sq, total |-> tot,
                    out |-> rook_diff_obs_simdx2(sq, tot)]
    /\ UNCHANGED <<build, board, frames, buffer, phase, lastop, reclaimed>>

ProbeBishop ==
    /\ phase = "kernels" /\ probe = NoProbe
    /\ \E sq \in ALL, tot \in Occupancies :
          probe' = [fn |-> "bishop_diff_obs_simdx2", sq |-> sq, total |-> tot,
                    out |-> bishop_diff_obs_simdx2(sq, tot)]
    /\ UNCHANGED <<build, board, frames, buffer, phase, lastop, reclaimed>>

ProbeQueen ==
    /\ phase = "kernels" /\ probe = NoProbe
    /\ \E sq \in ALL, tot \in Occupancies :
          probe' = [fn |-> "queen_diff_obs_simdx4", sq |-> sq, total |-> tot,
                    out |-> queen_diff_obs_simdx4(sq, tot)]
    /\ UNCHANGED <<build, board, frames, buffer, phase, lastop, reclaimed>>

\* ------------------------------------------------------- square notation
\* The char codes of 'a' and of '1'.
LOWER_A == 97

DIGIT_1 == 49

\* Display for Square: the name of the variant, a file letter and a rank
\* digit, as char codes.
Square_to_string(sq) == <<LOWER_A + (sq % 8), DIGIT_1 + (sq \div 8)>>

\* BoardFile::parser on one char: one_of('a'..='h'), then from_u8 of the u32
\* difference to 'a' cut to a u8 (the difference modulo 2^32, of which the
\* cut keeps the value modulo 256), cut to three bits.  `wraps` tells whether
\* the u32 subtraction goes below zero.
BoardFile_parser(c) ==
    [ok |-> c \in LOWER_A..(LOWER_A + 7),
     wraps |-> c < LOWER_A,
     val |-> ((c - LOWER_A) % 256) % 8]

\* BoardRank::parser on one char: one_of('1'..='8'), then from_u8 of the u32
\* difference to 'a' cut to a u8.
BoardRank_parser(c) ==
    [ok |-> c \in DIGIT_1..(DIGIT_1 + 7),
     wraps |-> c < LOWER_A,
     val |-> ((c - LOWER_A) % 256) % 8]

Square_from_coords(f, r) == from_u8(f + r * 8)

\* Square::parser().then_ignore(end()) on a text, in a build: a square, a
\* parse error, or a panic where a subtraction overflows under overflow checks.
Square_parser(text, bld) ==
    IF Len(text) # 2 \/ ~BoardFile_parser(text[1]).ok
    THEN [outcome |-> "error", sq |-> 0]
    ELSE IF bld = "debug" /\ BoardFile_parser(text[1]).wraps
    THEN [outcome |-> "panic", sq |-> 0]
    ELSE IF ~BoardRank_parser(text[2]).ok
    THEN [outcome |-> "error", sq |-> 0]
    ELSE IF bld = "debug" /\ BoardRank_parser(text[2]).wraps
    THEN [outcome |-> "panic", sq |-> 0]
    ELSE [outcome |-> "ok",
          sq |-> Square_from_coords(BoardFile_parser(text[1]).val,
                                    BoardRank_parser(text[2]).val)]

\* test_square_parser on one square: print it, parse the text.
ProbeSquare ==
    /\ phase = "kernels" /\ probe = NoProbe
    /\ \E sq \in ALL :
          probe' = [fn |-> "Square::parser", sq |-> sq, text |-> Square_to_string(sq),
                    out |-> Square_parser(Square_to_string(sq), build)]
    /\ UNCHANGED <<build, board, frames, buffer, phase, lastop, reclaimed>>

\* CompactZobristTables: one key per (kind, square) and one per (colour,
\* square), numbered after the keys of the full tables.
Compact_men_key(man, sq) == 781 + (man - 1) * 64 + sq

Compact_colors_key(c, sq) == 1165 + c * 64 + sq

Compact_hash_color_mask(c, mask) ==
    XorAll([i \in DOMAIN biterate(mask) |-> {Compact_colors_key(c, biterate(mask)[i] % 64)}])

Compact_hash_man_mask(man, mask) ==
    XorAll([i \in DOMAIN biterate(mask) |-> {Compact_men_key(man, biterate(mask)[i] % 64)}])

Compact_hash_square(player, man, sq) ==
    Xor({Compact_men_key(man, sq)}, {Compact_colors_key(player, sq)})

\* The kind planes hashed are the white plane ORed with itself.
Compact_hash_full_bitboard(masks) ==
    Xor(Xor(Compact_hash_color_mask(WHITE, bitor_sum(masks[WHITE])),
            Compact_hash_color_mask(BLACK, bitor_sum(masks[BLACK]))),
        XorAll([man \in 1..6 |->
                  Compact_hash_man_mask(man, masks[WHITE][man] \cup masks[WHITE][man])]))

Compact_hash_compact(colors, ech) ==
    Xor(XorAll([man \in 1..6 |-> Compact_hash_man_mask(man, ech[man])]),
        Xor(Compact_hash_color_mask(WHITE, colors[WHITE]),
            Compact_hash_color_mask(BLACK, colors[BLACK])))

\* The two whole-board hashes of the compact tables on the planes of one
\* position: the start position, one man alone, or one man and a white king
\* on e1.  Each runs biterate! on every mask it is given, and a build with
\* overflow checks panics on the first empty one.
ProbeCompactHash ==
    /\ phase = "kernels" /\ probe = NoProbe
    /\ \E masks \in {FullBitBoard_startpos("Full").masks} \cup
                    {[c \in {WHITE, BLACK} |-> [k \in Echelons |->
                        (IF c = x[2] /\ k = x[3] THEN {x[4]} ELSE {})
                          \cup (IF x[1] /\ c = WHITE /\ k = KING THEN {4} ELSE {})]] :
                     x \in {y \in BOOLEAN \X {WHITE, BLACK} \X Echelons \X ALL :
                              ~(y[1] /\ y[4] = 4)}} :
          probe' = [fn |-> "CompactZobristTables", masks |-> masks,
                    full |-> IF build = "debug"
                                  /\ (\/ \E c \in {WHITE, BLACK} : bitor_sum(masks[c]) = {}
                                      \/ \E k \in Echelons : masks[WHITE][k] = {})
                             THEN [outcome |-> "panic", hash |-> {}]
                             ELSE [outcome |-> "ok", hash |-> Compact_hash_full_bitboard(masks)],
                    compact |-> IF build = "debug"
                                  /\ (\/ \E c \in {WHITE, BLACK} : bitor_sum(masks[c]) = {}
                                      \/ \E k \in Echelons :
                                            masks[WHITE][k] \cup masks[BLACK][k] = {})
                             THEN [outcome |-> "panic", hash |-> {}]
                             ELSE [outcome |-> "ok",
                                   hash |-> Compact_hash_compact(
                                      [c \in {WHITE, BLACK} |-> bitor_sum(masks[c])],
                                      [k \in Echelons |-> masks[WHITE][k] \cup masks[BLACK][k]])]]
    /\ UNCHANGED <<build, board, frames, buffer, phase, lastop, reclaimed>>

\* The two dumbfills on a set of source squares.
ProbeKnight ==
    /\ phase = "kernels" /\ probe = NoProbe
    /\ \E mask \in Occupancies :
          probe' = [fn |-> "knight_dumbfill_simdx4", mask |-> mask,
                    out |-> knight_dumbfill_simdx4(mask)]
    /\ UNCHANGED <<build, board, frames, buffer, phase, lastop, reclaimed>>

ProbeKing ==
    /\ phase = "kernels" /\ probe = NoProbe
    /\ \E mask \in Occupancies :
          probe' = [fn |-> "king_dumbfill_simdx4", mask |-> mask,
                    out |-> king_dumbfill_simdx4(mask)]
    /\ UNCHANGED <<build, board, frames, buffer, phase, lastop, reclaimed>>

\* biterate! with a body that records the square it is run with: the squares
\* recorded, or a panic where the build checks the shift.
ProbeBiterate ==
    /\ phase = "kernels" /\ probe = NoProbe
    /\ \E mask \in Occupancies :
          probe' = [fn |-> "biterate!", mask |-> mask,
                    out |-> IF build = "debug" /\ biterate_overflows(mask)
                            THEN [outcome |-> "panic", squares |-> <<>>]
                            ELSE [outcome |-> "ok", squares |-> biterate(mask)]]
    /\ UNCHANGED <<build, board, frames, buffer, phase, lastop, reclaimed>>

KernelNext ==
    \/ ProbeSquare
    \/ ProbeKnight
    \/ ProbeKing
    \/ ProbeBiterate
    \/ ProbeCompactHash
    \/ ProbeRook
    \/ ProbeBishop
    \/ ProbeQueen

Kernels == KernelInit /\ [][KernelNext]_vars

\* The square one step from s in direction d = <<files, ranks>>, or -1 off
\* the board.
StepFrom(s, d) ==
    IF (s % 8) + d[1] \in 0..7 /\ (s \div 8) + d[2] \in 0..7
    THEN s + d[1] + 8 * d[2]
    ELSE 0 - 1

\* The squares met walking from s in direction d, up to and including the
\* first one in T.
RECURSIVE WalkRay(_, _, _)
WalkRay(s, d, T) ==
    IF StepFrom(s, d) < 0 THEN {}
    ELSE IF StepFrom(s, d) \in T THEN {StepFrom(s, d)}
    ELSE {StepFrom(s, d)} \cup WalkRay(StepFrom(s, d), d, T)

RookRays == {<<1, 0>>, <<0 - 1, 0>>, <<0, 1>>, <<0, 0 - 1>>}

BishopRays == {<<1, 1>>, <<1, 0 - 1>>, <<0 - 1, 1>>, <<0 - 1, 0 - 1>>}

WalkRays(rays, s, T) == UNION {WalkRay(s, d, T) : d \in rays}

\* C16: for every square and occupancy the three slider kernels return
\* exactly the squares met walking each ray of the piece outward from the
\* square up to and including the first occupied square or the board edge:
\* never the square itself, nothing behind a blocker, nothing across an edge.
C16_SlidersWalkRays ==
    /\ probe.fn = "rook_diff_obs_simdx2" =>
          probe.out = WalkRays(RookRays, probe.sq, probe.total)
    /\ probe.fn = "bishop_diff_obs_simdx2" =>
          probe.out = WalkRays(BishopRays, probe.sq, probe.total)
    /\ probe.fn = "queen_diff_obs_simdx4" =>
          probe.out = WalkRays(RookRays \cup BishopRays, probe.sq, probe.total)

\* A rook on d4 with men on d6 and d7, the occupancy holding d4 itself: d6 is
\* seen, d7 and d4 are not.
C16_Witness ==
    /\ probe.fn = "rook_diff_obs_simdx2"
    /\ probe.sq = 27
    /\ probe.total = {43, 51}
    /\ 43 \in probe.out /\ 51 \notin probe.out /\ 27 \notin probe.out
    /\ probe.out = WalkRays(RookRays, 27, {43, 51})

\* ------------------------------------------------------- move sanity checks
\* Square::rank, counted from 1.
Square_rank(sq) == 1 + (sq \div 8)

\* ChessMove::sanity_check: TRUE when no assertion fails.
ChessMove_sanity_check(mv) ==
    /\ mv.special >= SP_EAST =>
          mv.ech = KING /\ mv.capture = NONE /\ mv.from % 8 = mv.to % 8
    /\ mv.special = SP_PAWN =>
          /\ mv.ech = PAWN
          /\ IF mv.capture # NONE THEN mv.capture = PAWN ELSE abs_diff(mv.from, mv.to) = 16
    /\ mv.special \in KNIGHT..QUEEN => mv.ech = PAWN
    /\ mv.from # mv.to

\* BitMove::sanity_check: TRUE when no assertion fails.
BitMove_sanity_check(mv) ==
    /\ mv.special >= SP_EAST =>
          mv.ech = KING /\ mv.capture = NONE /\ Square_rank(mv.from) = Square_rank(mv.to)
    /\ mv.special = SP_PAWN =>
          /\ mv.ech = PAWN
          /\ IF mv.capture # NONE THEN mv.capture = PAWN ELSE abs_diff(mv.from, mv.to) = 16
    /\ (mv.ech = PAWN /\ mv.capture = NONE) => Square_rank(mv.from) = Square_rank(mv.to)
    /\ mv.from # mv.to

\* C17: the sanity check of a move raises no assertion on any move the
\* generator emits: from differs from to; a castle is a king move without
\* capture along one rank; a pawn-special with capture captures a pawn; a
\* pawn-special without capture spans 16 squares; a promotion is a pawn move.
C17_EmittedMovesSane ==
    (phase = "listed" /\ lastop = "enumerate") =>
       \A mv \in Range(buffer) :
          /\ ChessMove_sanity_check(mv)
          /\ BitMove_sanity_check(mv)
          /\ mv.from # mv.to
          /\ mv.special >= SP_EAST =>
                mv.ech = KING /\ mv.capture = NONE /\ mv.from \div 8 = mv.to \div 8
          /\ (mv.special = SP_PAWN /\ mv.capture # NONE) => mv.capture = PAWN
          /\ (mv.special = SP_PAWN /\ mv.capture = NONE) => abs_diff(mv.from, mv.to) = 16
          /\ mv.special \in KNIGHT..QUEEN => mv.ech = PAWN

\* ------------------------------------------------------ board sanity checks
\* CompactBitBoard::sanity_check: TRUE when no assertion fails.
CompactBitBoard_sanity_check(b) ==
    /\ \A p1, p2 \in Echelons : p1 < p2 => b.ech[p1] \cap b.ech[p2] = {}
    /\ b.colors[WHITE] \cup b.colors[BLACK] = {}
    /\ UNION {b.colors[WHITE] \cap b.ech[p] : p \in Echelons} = b.colors[WHITE]
    /\ UNION {b.colors[BLACK] \cap b.ech[p] : p \in Echelons} = b.colors[BLACK]
    /\ UNION {b.ech[p] : p \in Echelons}
          = UNION {(b.colors[WHITE] \cup b.colors[BLACK]) \cap b.ech[p] : p \in Echelons}
    /\ b.hash = rehash(b)

\* The order of the (echelon, colour) pairs the loops of
\* FullBitBoard::sanity_check compare.
PairBefore(p1, c1, p2, c2) == p1 < p2 \/ (p1 = p2 /\ c1 < c2)

\* FullBitBoard::sanity_check: TRUE when no assertion fails.
FullBitBoard_sanity_check(b) ==
    /\ \A p1, p2 \in Echelons : \A c1, c2 \in {WHITE, BLACK} :
          PairBefore(p1, c1, p2, c2) => b.masks[c1][p1] \cap b.masks[c2][p2] = {}
    /\ b.hash = rehash(b)

\* FullerBitBoard::sanity_check: TRUE when no assertion fails.
FullerBitBoard_sanity_check(b) ==
    /\ FullBitBoard_sanity_check(b)
    /\ b.total[WHITE] = bitor_sum(b.masks[WHITE])
    /\ b.total[BLACK] = bitor_sum(b.masks[BLACK])

sanity_check(b) ==
    CASE b.layout = "Compact" -> CompactBitBoard_sanity_check(b)
      [] b.layout = "Full" -> FullBitBoard_sanity_check(b)
      [] b.layout = "Fuller" -> FullerBitBoard_sanity_check(b)

\* A compact board whose kind planes are pairwise disjoint, whose colour planes
\* are disjoint, whose kind planes and colour planes cover the same squares,
\* and whose stored hash is the recomputed one.
WellFormedCompact(b) ==
    /\ b.layout = "Compact"
    /\ \A p1, p2 \in Echelons : p1 # p2 => b.ech[p1] \cap b.ech[p2] = {}
    /\ b.colors[WHITE] \cap b.colors[BLACK] = {}
    /\ UNION {b.ech[p] : p \in Echelons} = b.colors[WHITE] \cup b.colors[BLACK]
    /\ b.hash = rehash(b)

\* C18: CompactBitBoard::sanity_check raises no assertion on a well-formed
\* compact board, in particular on CompactBitBoard::startpos(); the checks of
\* FullBitBoard and FullerBitBoard raise none on their startpos().
C18_SanityCheckPasses ==
    /\ WellFormedCompact(board) => CompactBitBoard_sanity_check(board)
    /\ lastop = "startpos" => sanity_check(board)

\* ----------------------------------------------------- the driver, late on
\* The largest value of the half-move clock, a u8.
U8_MAX == 255

\* The n-th move of a game in which the king's knights go out and come home
\* for ever: Ng1-f3, Ng8-f6, Nf3-g1, Nf6-g8, ...
ShuffleMove(n) ==
    CASE n % 4 = 1 -> Move(6, 21, KNIGHT, NONE, NONE)
      [] n % 4 = 2 -> Move(62, 45, KNIGHT, NONE, NONE)
      [] n % 4 = 3 -> Move(21, 6, KNIGHT, NONE, NONE)
      [] n % 4 = 0 -> Move(45, 62, KNIGHT, NONE, NONE)

\* The board after make_legal_move of the moves first .. last of that game,
\* made on b.
RECURSIVE ShuffleOn(_, _, _)
ShuffleOn(b, first, last) ==
    IF last < first THEN b
    ELSE make_legal_move(RealBoard(ShuffleOn(b, first, last - 1)), ShuffleMove(last)).v.bb

\* The board after the first n moves of that game.  Four plies of it give
\* the board back with the clock 4 higher and the turn 2 higher, so the whole
\* rounds are folded into the clock and the turn and the rest is made.
Shuffled(layout, n) ==
    ShuffleOn([startpos(layout) EXCEPT !.trans.halfmove_clock = 4 * (n \div 4),
                                       !.turn = 1 + 2 * (n \div 4)],
              4 * (n \div 4) + 1, n)

\* The driver is started on the board of a game that has gone U8_MAX plies
\* without a capture or a pawn move.
LateInit ==
    /\ build \in Builds
    /\ \E layout \in Layouts : board = Shuffled(layout, U8_MAX)
    /\ frames = <<>>
    /\ buffer = <<>>
    /\ phase = "ready"
    /\ lastop = "startpos"
    /\ reclaimed = [before |-> board, capture |-> NONE]
    /\ probe = NoProbe

LateSpec == LateInit /\ [][Next]_vars

\* C19: make_legal_move never overflows, by panic or by wrap-around, on a
\* generated move: not when the half-move clock already holds 255 after 255
\* plies without a capture or a pawn move.
C19_MakeNeverOverflows ==
    /\ phase # "panicked"
    /\ phase = "listed" =>
          \A mv \in Range(buffer) : ~make_legal_move_overflows(RealBoard(board), mv)
    /\ (JustMade /\ Top.mv.capture = NONE /\ Top.mv.ech # PAWN) =>
          board.trans.halfmove_clock > Top.before.trans.halfmove_clock

\* C20: for each of the 64 squares, parsing the text Display gives for the
\* square with Square::parser() up to the end of input succeeds and yields the
\* square again.
C20_SquareRoundTrip ==
    probe.fn = "Square::parser" => probe.out = [outcome |-> "ok", sq |-> probe.sq]

\* The king of c stands on its start square and a rook of c on the start
\* square of direction d.
CastlersAtHome(b, c, d) ==
    /\ CLASSIC_CASTLING.king_start[ix(c)] \in men(b, c, KING)
    /\ CLASSIC_CASTLING.rook_start[ix(c)][ix(d)] \in men(b, c, ROOK)

\* C21: in every position the driver reaches from startpos, a castling right
\* that is held implies that the king and the rook of that right stand on
\* their start squares; and no castle is emitted for a side whose king or
\* rook of that direction has left its start square.
C21_RightsImplyHome ==
    /\ lastop \in {"startpos", "make"} =>
          \A c \in {WHITE, BLACK} : \A d \in {EAST, WEST} :
             board.trans.rights[c][d] => CastlersAtHome(board, c, d)
    /\ (phase = "listed" /\ lastop = "enumerate") =>
          \A mv \in Range(buffer) :
             mv.special >= SP_EAST =>
                CastlersAtHome(board, board.player, mv.special - SP_EAST)

\* The men of colour c and kind k after a castle of colour mover in direction
\* d, given the men before it: the king goes from its start square to its end
\* square and the rook from its start square to the square the king passed.
AfterCastle(before, mover, d, c, k) ==
    IF c = mover /\ k = KING
    THEN (men(before, c, k) \ {CLASSIC_CASTLING.king_start[ix(mover)]})
            \cup {CLASSIC_CASTLING.king_end[ix(mover)][ix(d)]}
    ELSE IF c = mover /\ k = ROOK
    THEN (men(before, c, k) \ {CLASSIC_CASTLING.rook_start[ix(mover)][ix(d)]})
            \cup {(CLASSIC_CASTLING.king_start[ix(mover)]
                     + CLASSIC_CASTLING.king_end[ix(mover)][ix(d)]) \div 2}
    ELSE men(before, c, k)

RECURSIVE PlayedOn(_, _, _)
PlayedOn(b, line, n) ==
    IF n = 0 THEN b
    ELSE CHOOSE made \in {make_legal_move(RealBoard(prev), line[n]).v.bb :
                             prev \in {PlayedOn(b, line, n - 1)}} : TRUE

\* The driver is started on the board after Ng1-f3 a7-a5, Nf3-g1 a5-a4, b2-b4:
\* Black is to move, and its pawn on a4 stands beside the white pawn that has
\* just advanced two squares.
EnPassantInit ==
    /\ build \in Builds
    /\ \E layout \in Layouts :
          board = PlayedOn(startpos(layout),
                           <<Move(6, 21, KNIGHT, NONE, NONE),
                             Move(48, 32, PAWN, SP_PAWN, NONE),
                             Move(21, 6, KNIGHT, NONE, NONE),
                             Move(32, 24, PAWN, NONE, NONE),
                             Move(9, 25, PAWN, SP_PAWN, NONE)>>, 5)
    /\ frames = <<>>
    /\ buffer = <<>>
    /\ phase = "ready"
    /\ lastop = "startpos"
    /\ reclaimed = [before |-> board, capture |-> NONE]
    /\ probe = NoProbe

EnPassantSpec == EnPassantInit /\ [][Next]_vars

\* The move made captures en passant: the board before it held an en-passant
\* square and the move is a pawn capture in the en-passant encoding onto it.
MadeEnPassant ==
    /\ JustMade
    /\ EnPassantCapture(Top.mv)
    /\ Top.before.trans.en_passant.some
    /\ Top.mv.to = Top.before.trans.en_passant.square

\* C23: make_legal_move of a generated en-passant capture removes the
\* opponent's pawn on en_passant.capture, not a man on the move's destination:
\* afterwards the destination holds the capturing pawn, the capturing pawn's
\* origin and the captured pawn's square are empty, and no other man of the
\* opponent has gone.
C23_EnPassantRemovesPusher ==
    MadeEnPassant =>
       /\ Top.before.trans.en_passant.capture \in men(Top.before, board.player, PAWN)
       /\ men(board, board.player, PAWN)
             = men(Top.before, board.player, PAWN) \ {Top.before.trans.en_passant.capture}
       /\ \A k \in Echelons \ {PAWN} :
             men(board, board.player, k) = men(Top.before, board.player, k)
       /\ men(board, Top.before.player, PAWN)
             = (men(Top.before, Top.before.player, PAWN) \ {Top.mv.from}) \cup {Top.mv.to}
       /\ Top.mv.from \notin Occupancy(board)
       /\ Top.before.trans.en_passant.capture \notin Occupancy(board)

C23_Witness ==
    /\ MadeEnPassant
    /\ Top.mv = Move(24, 17, PAWN, SP_PAWN, PAWN)
    /\ Top.before.trans.en_passant = SomeEnPassant(17, 25)
    /\ 25 \in men(Top.before, WHITE, PAWN)
    /\ 25 \notin men(board, WHITE, PAWN)
    /\ 17 \in men(board, BLACK, PAWN)

\* C24: for both colours c, attacks(board, c) is computed from the planes of
\* colour c only, with c's own pawn capture direction, and is paired with the
\* king of the other colour as the targeted king.
C24_AttacksOfOwnSide ==
    lastop \in {"startpos", "make"} =>
       \A c \in {WHITE, BLACK} :
          attacks(board, c)
             = [attack |-> IF c = WHITE
                           THEN attacks_from_echarray_white(total(board), side(board, c))
                           ELSE attacks_from_echarray_black(total(board), side(board, c)),
                targeted_king |-> men(board, opp(c), KING)]

\* C25: the attack mask of a side holds every square that at least one man of
\* the side attacks, a square attacked by men of two different kinds included.
C25_AttackMaskIsUnion ==
    lastop \in {"startpos", "make"} =>
       AttackedBy(board, WHITE) \subseteq attacks(board, WHITE).attack

\* The piece planes of a board as its layout stores them.
Planes(b) == [ech |-> b.ech, colors |-> b.colors, masks |-> b.masks, total |-> b.total]

\* C26: clone_make_pseudolegal_move(B, m) returns a board whose piece planes
\* are those make_legal_move(B, m) produces, and whose side to move, turn,
\* transients and hash are those of B.
C26_CloneMovesPlanesOnly ==
    (phase = "listed" /\ lastop = "enumerate") =>
       \A mv \in Range(buffer) :
          /\ Planes(clone_make_pseudolegal_move(board, mv))
                = Planes(make_legal_move(RealBoard(board), mv).v.bb)
          /\ clone_make_pseudolegal_move(board, mv)
                = [board EXCEPT !.ech = clone_make_pseudolegal_move(board, mv).ech,
                                !.colors = clone_make_pseudolegal_move(board, mv).colors,
                                !.masks = clone_make_pseudolegal_move(board, mv).masks,
                                !.total = clone_make_pseudolegal_move(board, mv).total]

C26_Witness ==
    /\ phase = "listed"
    /\ lastop = "enumerate"
    /\ \E mv \in Range(buffer) :
          /\ DoublePush(board, mv)
          /\ Planes(clone_make_pseudolegal_move(board, mv)) # Planes(board)
          /\ make_legal_move(RealBoard(board), mv).v.bb.trans.en_passant.some
          /\ ~clone_make_pseudolegal_move(board, mv).trans.en_passant.some
          /\ clone_make_pseudolegal_move(board, mv).player = board.player

\* The XOR of the table keys of the castling rights that are set.
KeysOfRights(rights) ==
    {rights_key(c, d) : <<c, d>> \in {<<c, d>> \in {WHITE, BLACK} \X {EAST, WEST} : rights[c][d]}}

\* C27: hash_rights is the XOR of the keys of exactly the rights that are set;
\* two positions that differ only in their castling rights have different
\* hashes; and a move that clears rights changes the hash by their keys.
C27_HashRightsOfSetRights ==
    /\ lastop \in {"startpos", "make"} =>
          /\ hash_rights(board.trans.rights) = KeysOfRights(board.trans.rights)
          /\ \A c \in {WHITE, BLACK} : \A d \in {EAST, WEST} :
                board.trans.rights[c][d] =>
                   rehash([board EXCEPT !.trans.rights[c][d] = FALSE]) # rehash(board)
    /\ JustMade =>
          \A c \in {WHITE, BLACK} : \A d \in {EAST, WEST} :
             (Top.before.trans.rights[c][d] /\ ~board.trans.rights[c][d])
                => rights_key(c, d) \in Xor(board.hash, Top.before.hash)

\* The squares a step of <<files, ranks>> in steps away from some square of
\* mask, on the board.
Neighbours(steps, mask) ==
    {t \in ALL : \E s \in mask :
        <<(t % 8) - (s % 8), (t \div 8) - (s \div 8)>> \in steps}

KnightSteps ==
    {d \in (0 - 2 .. 2) \X (0 - 2 .. 2) : d[1] * d[1] + d[2] * d[2] = 5}

KingSteps ==
    {d \in (0 - 1 .. 1) \X (0 - 1 .. 1) : d # <<0, 0>>}

\* C28: for every set of source squares the knight and king dumbfills return
\* exactly the union of the on-board knight-step, respectively king-step,
\* neighbours of the sources: no neighbour is missing and no square comes
\* from wrapping across the a/h files or over the first or eighth rank.
C28_DumbfillsAreNeighbours ==
    /\ probe.fn = "knight_dumbfill_simdx4" => probe.out = Neighbours(KnightSteps, probe.mask)
    /\ probe.fn = "king_dumbfill_simdx4" => probe.out = Neighbours(KingSteps, probe.mask)

\* Knights on a1 and h8: b3 and c2, f7 and g6, and nothing over an edge.
C28_Witness ==
    /\ probe.fn = "knight_dumbfill_simdx4"
    /\ probe.mask = {0, 63}
    /\ probe.out = {10, 17, 46, 53}

\* C29: biterate! runs its body exactly once per set bit of the mask, in
\* ascending square order with the loop variable bound to the bit's square,
\* and not at all on an empty mask: as many times as the mask has bits.
C29_BiterateVisitsSetBits ==
    probe.fn = "biterate!" =>
       /\ probe.out.outcome = "ok"
       /\ Len(probe.out.squares) = Cardinality(probe.mask)
       /\ Range(probe.out.squares) = probe.mask
       /\ \A i \in 1 .. Len(probe.out.squares) - 1 :
             probe.out.squares[i] < probe.out.squares[i + 1]

\* The XOR of hash_square(c, k, s) of the compact tables over every man of
\* the planes.
HashOfMen(masks) ==
    {Compact_men_key(k, s) :
        <<k, s>> \in {<<k, s>> \in Echelons \X ALL :
                        (s \in masks[WHITE][k]) # (s \in masks[BLACK][k])}}
      \cup {Compact_colors_key(c, s) :
        <<c, s>> \in {<<c, s>> \in {WHITE, BLACK} \X ALL :
                        Cardinality({k \in Echelons : s \in masks[c][k]}) % 2 = 1}}

\* C30: on the planes of one position, hash_full_bitboard and hash_compact of
\* the compact tables return the same hash, the XOR of hash_square(c, k, s)
\* over every man of both colours.
C30_CompactTablesAgree ==
    probe.fn = "CompactZobristTables" =>
       /\ probe.full = [outcome |-> "ok", hash |-> HashOfMen(probe.masks)]
       /\ probe.compact = probe.full

====
